---- MODULE Spec2Model ----
(***************************************************************************)
(* Model of the synthetic e-commerce pipeline:                             *)
(*   generate_datasets.py  - the dataset generator (specification Spec)    *)
(*   load_to_database.py   - the SQLite loader (specification LoadSpec)    *)
(*                                                                         *)
(* A datetime/date object is the number of days since 2022-01-01; a date   *)
(* string "YYYY-MM-DD" is the tuple <<Y, M, D>> and the empty string is    *)
(* <<>>.  strftime and to_datetime convert between the two through the     *)
(* Gregorian calendar.                                                     *)
(***************************************************************************)
EXTENDS Integers, Sequences, FiniteSets, TLC

VARIABLES
    pc,           \* generator: the section of the script being executed
    customers,    \* generator: the list `customers` / df_customers
    products,     \* generator: the list `products` / df_products
    orders,       \* generator: the list `orders` / df_orders
    order_items,  \* generator: the list `order_items` / df_order_items
    shipments,    \* generator: the list `shipments` / df_shipments
    files,        \* generator: names of the CSV files written so far
    passed,       \* generator: the referential asserts that have passed
    reported,     \* generator: "[OK] All referential integrity checks passed!" printed
    lpc,          \* loader: the step of main() being executed
    present,      \* loader: the CSV files that exist in the directory
    db_file,      \* loader: whether ecommerce.db exists
    conn,         \* loader: the connection: "none", "open" or "closed"
    foreign_keys, \* loader: PRAGMA foreign_keys of the connection
    schema,       \* loader: the tables that exist in the database
    tables,       \* loader: the rows of each table of the database
    csv_rows,     \* load_csv_to_table: the rows of the CSV file as read
    df,           \* load_csv_to_table: the DataFrame after drop_duplicates
    duplicates_removed, \* load_csv_to_table: the count of duplicates it reports
    loaded,       \* loader: the tables loaded so far, in order
    indexes,      \* loader: the indexes of the database
    idx_attempted,\* loader: the indexes create_indexes has attempted, in order
    counts,       \* loader: the row counts printed by print_table_counts, or <<>>
    integrity_ok, \* loader: verify_referential_integrity's result: "unset", "True", "False"
    outcome       \* loader: the final status line printed

gvars == <<pc, customers, products, orders, order_items, shipments, files,
           passed, reported>>

lvars == <<lpc, present, db_file, conn, foreign_keys, schema, tables, csv_rows, df,
           duplicates_removed,
           loaded, indexes, idx_attempted, counts, integrity_ok, outcome>>

----------------------------------------------------------------------------
(* Bounds of the model: the table sizes of the generator, scaled down.     *)

NUM_CUSTOMERS == 1

NUM_PRODUCTS == 1

NUM_ORDERS == 1

NUM_ORDER_ITEMS == 1

NUM_SHIPMENTS == 1

(* Bounds of the loader's inputs: the rows of a CSV file, and the indexes   *)
(* whose creation the database refuses.                                    *)

MaxFileRows == 2

MaxIndexFaults == 1

----------------------------------------------------------------------------
(* Calendar: datetime(y, m, d), strftime("%Y-%m-%d"), pd.to_datetime.      *)

EpochYear == 2022

IsLeap(y) == (y % 4 = 0 /\ y % 100 # 0) \/ y % 400 = 0

DaysInYear(y) == IF IsLeap(y) THEN 366 ELSE 365

DaysInMonth(y, m) ==
    IF m = 2 THEN (IF IsLeap(y) THEN 29 ELSE 28)
    ELSE IF m \in {4, 6, 9, 11} THEN 30 ELSE 31

RECURSIVE DaysBeforeYear(_)
DaysBeforeYear(y) ==
    IF y <= EpochYear THEN 0 ELSE DaysBeforeYear(y - 1) + DaysInYear(y - 1)

RECURSIVE DaysBeforeMonth(_, _)
DaysBeforeMonth(y, m) ==
    IF m <= 1 THEN 0 ELSE DaysBeforeMonth(y, m - 1) + DaysInMonth(y, m - 1)

\* the day number of the first day of each month of the years in use
MonthStart ==
    [y \in EpochYear..(EpochYear + 4), m \in 1..12 |->
        DaysBeforeYear(y) + DaysBeforeMonth(y, m)]

\* datetime(y, m, d): the day number of a calendar date
datetime(y, m, d) == MonthStart[y, m] + (d - 1)

RECURSIVE YearOf(_, _)
YearOf(n, y) == IF n < DaysInYear(y) THEN <<y, n>> ELSE YearOf(n - DaysInYear(y), y + 1)

RECURSIVE MonthOf(_, _, _)
MonthOf(n, y, m) ==
    IF n < DaysInMonth(y, m) THEN <<m, n>> ELSE MonthOf(n - DaysInMonth(y, m), y, m + 1)

\* the calendar date of each day number of the years in use
DateOf ==
    [n \in 0..(MonthStart[EpochYear + 4, 12] + 30) |->
        LET yr == YearOf(n, EpochYear)
            mo == MonthOf(yr[2], yr[1], 1)
        IN  <<yr[1], mo[1], mo[2] + 1>>]

\* date.strftime("%Y-%m-%d")
strftime(n) == DateOf[n]

\* pd.to_datetime("YYYY-MM-DD")
to_datetime(s) == datetime(s[1], s[2], s[3])

START_DATE == datetime(2022, 1, 1)

END_DATE == datetime(2025, 10, 31)

SIGNUP_END == datetime(2025, 10, 31)

LAUNCH_END == datetime(2025, 9, 1)

\* random.randint(1, 7) for ship_days
SHIP_DAYS_MIN == 1

SHIP_DAYS_MAX == 7

ORDER_STATUSES == {"Pending", "Processing", "Shipped", "Delivered", "Cancelled"}

Max(a, b) == IF a >= b THEN a ELSE b

----------------------------------------------------------------------------
(* The random sources.  A draw is a nondeterministic choice among the      *)
(* values the call can return, sampled at the two ends of its interval.    *)

\* fake.date_between(start_date, end_date), start_date <= end_date
date_between(start_date, end_date) ==
    {d \in {start_date, end_date} : start_date <= d /\ d <= end_date}

\* random.randint(a, b), sampled at its two ends
randint(a, b) == {a, b}

\* random.choice(list) over a list of ids
choice(ids) == ids

----------------------------------------------------------------------------
(* generate_datasets.py                                                    *)

Ids(rows, col) == {rows[i][col] : i \in 1..Len(rows)}

\* df[df[col] == id][...].iloc[0]: the first row whose column col equals id
FirstRow(rows, col, id) ==
    rows[CHOOSE i \in 1..Len(rows) :
            /\ rows[i][col] = id
            /\ \A j \in 1..(i - 1) : rows[j][col] # id]

GenInit ==
    /\ pc = "customers"
    /\ customers = <<>>
    /\ products = <<>>
    /\ orders = <<>>
    /\ order_items = <<>>
    /\ shipments = <<>>
    /\ files = {}
    /\ passed = {}
    /\ reported = FALSE

\* 1. GENERATE CUSTOMERS: one iteration of the loop
GenCustomer ==
    /\ pc = "customers"
    /\ Len(customers) < NUM_CUSTOMERS
    /\ \E signup_date \in date_between(START_DATE, SIGNUP_END) :
          customers' = Append(customers,
              [customer_id |-> Len(customers) + 1,
               signup_date |-> strftime(signup_date)])
    /\ UNCHANGED <<pc, products, orders, order_items, shipments, files, passed, reported, lvars>>

\* df_customers.to_csv("customers.csv")
WriteCustomers ==
    /\ pc = "customers"
    /\ Len(customers) = NUM_CUSTOMERS
    /\ files' = files \cup {"customers.csv"}
    /\ pc' = "products"
    /\ UNCHANGED <<customers, products, orders, order_items, shipments, passed, reported, lvars>>

\* 2. GENERATE PRODUCTS: one iteration of the loop
GenProduct ==
    /\ pc = "products"
    /\ Len(products) < NUM_PRODUCTS
    /\ \E launch_date \in date_between(START_DATE, LAUNCH_END) :
          products' = Append(products,
              [product_id |-> Len(products) + 1,
               launch_date |-> strftime(launch_date)])
    /\ UNCHANGED <<pc, customers, orders, order_items, shipments, files, passed, reported, lvars>>

\* df_products.to_csv("products.csv")
WriteProducts ==
    /\ pc = "products"
    /\ Len(products) = NUM_PRODUCTS
    /\ files' = files \cup {"products.csv"}
    /\ pc' = "orders"
    /\ UNCHANGED <<customers, products, orders, order_items, shipments, passed, reported, lvars>>

\* mutant of OrderDateStart: the customer's signup date is ignored
OrderDateStartMut(customer_signup) == START_DATE

\* start_date of the order_date draw: max(customer_signup, START_DATE)
OrderDateStart(customer_signup) == Max(customer_signup, START_DATE)

\* mutant of NoShipDate: a Cancelled order gets a ship_date
NoShipDateMut(status) == status \in {"Pending"}

\* status in ["Pending", "Cancelled"]: the order gets no ship_date
NoShipDate(status) == status \in {"Pending", "Cancelled"}

\* the ship_days an order can draw: random.randint(1, 7)
ShipDays == randint(SHIP_DAYS_MIN, SHIP_DAYS_MAX)

\* the customer an order references: random.choice(customer_ids)
OrderCustomerIds == choice(Ids(customers, "customer_id"))

\* 3. GENERATE ORDERS: one iteration of the loop
GenOrder ==
    /\ pc = "orders"
    /\ Len(orders) < NUM_ORDERS
    /\ \E customer_id \in OrderCustomerIds :
          LET customer_signup ==
                  to_datetime(FirstRow(customers, "customer_id", customer_id).signup_date)
          IN  \E order_date \in date_between(OrderDateStart(customer_signup), END_DATE) :
              \E status \in ORDER_STATUSES :
              \E ship_days \in ShipDays :
                  /\ NoShipDate(status) => ship_days = SHIP_DAYS_MIN  \* not drawn
                  /\ orders' = Append(orders,
                        [order_id |-> Len(orders) + 1,
                         customer_id |-> customer_id,
                         order_date |-> strftime(order_date),
                         ship_date |-> IF NoShipDate(status) THEN <<>>
                                       ELSE strftime(order_date + ship_days),
                         status |-> status])
    /\ UNCHANGED <<pc, customers, products, order_items, shipments, files, passed, reported, lvars>>

\* df_orders.to_csv("orders.csv")
WriteOrders ==
    /\ pc = "orders"
    /\ Len(orders) = NUM_ORDERS
    /\ files' = files \cup {"orders.csv"}
    /\ pc' = "order_items"
    /\ UNCHANGED <<customers, products, orders, order_items, shipments, passed, reported, lvars>>

\* mutant of ItemOrderIds: an off-by-one id range instead of the generated ids
ItemOrderIdsMut == 1..(NUM_ORDERS + 1)

\* the order and the product an order item references
ItemOrderIds == choice(Ids(orders, "order_id"))

ItemProductIds == choice(Ids(products, "product_id"))

\* 4. GENERATE ORDER ITEMS: one iteration of the loop
GenOrderItem ==
    /\ pc = "order_items"
    /\ Len(order_items) < NUM_ORDER_ITEMS
    /\ \E order_id \in ItemOrderIds, product_id \in ItemProductIds :
          order_items' = Append(order_items,
              [order_item_id |-> Len(order_items) + 1,
               order_id |-> order_id,
               product_id |-> product_id])
    /\ UNCHANGED <<pc, customers, products, orders, shipments, files, passed, reported, lvars>>

\* df_order_items.to_csv("order_items.csv")
WriteOrderItems ==
    /\ pc = "order_items"
    /\ Len(order_items) = NUM_ORDER_ITEMS
    /\ files' = files \cup {"order_items.csv"}
    /\ pc' = "shipments"
    /\ UNCHANGED <<customers, products, orders, order_items, shipments, passed, reported, lvars>>

\* df_orders[df_orders["status"].isin(["Shipped", "Delivered"])]["order_id"].tolist()
order_ids_with_shipments ==
    {orders[i].order_id : i \in {j \in 1..Len(orders) :
                                    orders[j].status \in {"Shipped", "Delivered"}}}

\* mutant of MinShipDate: a ship_date after END_DATE is kept
MinShipDateMut(order) ==
    LET order_date == to_datetime(order.order_date)
    IN  IF order.ship_date # <<>> THEN to_datetime(order.ship_date) ELSE order_date

\* the earliest shipment date of an order
MinShipDate(order) ==
    LET order_date == to_datetime(order.order_date)
        min_ship_date == IF order.ship_date # <<>>
                         THEN to_datetime(order.ship_date)
                         ELSE order_date
    IN  IF min_ship_date > END_DATE THEN order_date ELSE min_ship_date

\* 5. GENERATE SHIPMENTS: one iteration of the loop; random.choice raises
\* IndexError when no order is Shipped or Delivered
GenShipment ==
    /\ pc = "shipments"
    /\ Len(shipments) < NUM_SHIPMENTS
    /\ IF order_ids_with_shipments = {}
       THEN /\ pc' = "crashed"
            /\ UNCHANGED shipments
       ELSE /\ \E order_id \in choice(order_ids_with_shipments) :
                  LET min_ship_date == MinShipDate(FirstRow(orders, "order_id", order_id))
                      end_ship_date == Max(min_ship_date, END_DATE)
                  IN  \E shipment_date \in date_between(min_ship_date, end_ship_date) :
                          shipments' = Append(shipments,
                              [shipment_id |-> Len(shipments) + 1,
                               order_id |-> order_id,
                               shipment_date |-> strftime(shipment_date)])
            /\ UNCHANGED pc
    /\ UNCHANGED <<customers, products, orders, order_items, files, passed, reported, lvars>>

\* df_shipments.to_csv("shipments.csv")
WriteShipments ==
    /\ pc = "shipments"
    /\ Len(shipments) = NUM_SHIPMENTS
    /\ files' = files \cup {"shipments.csv"}
    /\ pc' = "verify"
    /\ UNCHANGED <<customers, products, orders, order_items, shipments, passed, reported, lvars>>

\* the four asserts of the VERIFICATION section, in order: the name of each
\* and whether its issubset test holds
Asserts ==
    <<<<"verify_customers",
        Ids(orders, "customer_id") \subseteq Ids(customers, "customer_id")>>,
      <<"verify_products",
        Ids(order_items, "product_id") \subseteq Ids(products, "product_id")>>,
      <<"verify_item_orders",
        Ids(order_items, "order_id") \subseteq Ids(orders, "order_id")>>,
      <<"verify_shipments",
        Ids(shipments, "order_id") \subseteq Ids(orders, "order_id")>>>>

\* the asserts that pass before the first one that raises AssertionError
PassedAsserts ==
    {Asserts[i][1] : i \in {j \in 1..Len(Asserts) : \A k \in 1..j : Asserts[k][2]}}

\* VERIFICATION: the asserts run in order; the first that fails stops the
\* script, and the success lines are printed after the last
Verification ==
    /\ pc = "verify"
    /\ passed' = PassedAsserts
    /\ IF Cardinality(passed') = Len(Asserts)
       THEN /\ reported' = TRUE
            /\ pc' = "done"
       ELSE /\ pc' = "assert_failed"
            /\ UNCHANGED reported
    /\ UNCHANGED <<customers, products, orders, order_items, shipments, files, lvars>>

GenNext ==
    \/ GenCustomer \/ WriteCustomers
    \/ GenProduct \/ WriteProducts
    \/ GenOrder \/ WriteOrders
    \/ GenOrderItem \/ WriteOrderItems
    \/ GenShipment \/ WriteShipments
    \/ Verification

----------------------------------------------------------------------------
(* load_to_database.py                                                     *)

TABLES == {"customers", "products", "orders", "order_items", "shipments"}

\* csv_files: file name -> (table name, primary key column)
csv_files ==
    [f \in {"customers.csv", "products.csv", "orders.csv", "order_items.csv",
            "shipments.csv"} |->
        CASE f = "customers.csv" -> <<"customers", "customer_id">>
          [] f = "products.csv" -> <<"products", "product_id">>
          [] f = "orders.csv" -> <<"orders", "order_id">>
          [] f = "order_items.csv" -> <<"order_items", "order_item_id">>
          [] f = "shipments.csv" -> <<"shipments", "shipment_id">>]

\* mutant of load_order: orders are loaded before customers
load_order_mut ==
    <<"orders.csv", "customers.csv", "products.csv", "order_items.csv", "shipments.csv">>

load_order ==
    <<"customers.csv", "products.csv", "orders.csv", "order_items.csv", "shipments.csv">>

\* FOREIGN KEY (column) REFERENCES parent(parent key) of create_database_schema
ForeignKeys(table) ==
    CASE table = "orders" -> {<<"customer_id", "customers", "customer_id">>}
      [] table = "order_items" -> {<<"order_id", "orders", "order_id">>,
                                   <<"product_id", "products", "product_id">>}
      [] table = "shipments" -> {<<"order_id", "orders", "order_id">>}
      [] OTHER -> {}

\* the indexes list of create_indexes
INDEXES ==
    <<"idx_orders_customer_id", "idx_order_items_order_id", "idx_order_items_product_id",
      "idx_shipments_order_id", "idx_customers_email", "idx_products_category",
      "idx_orders_status", "idx_orders_order_date">>

\* The key values a CSV file may hold
Keys == {1, 2}

\* the rows a CSV file of a table may hold
RowValues(table) ==
    CASE table = "customers" -> [customer_id : Keys]
      [] table = "products" -> [product_id : Keys]
      [] table = "orders" -> [order_id : Keys, customer_id : Keys]
      [] table = "order_items" -> [order_item_id : Keys, order_id : Keys, product_id : Keys]
      [] table = "shipments" -> [shipment_id : Keys, order_id : Keys]

\* pd.read_csv(csv_file): the contents a file may have
FileContents(table) ==
    UNION {[1..n -> RowValues(table)] : n \in 0..MaxFileRows}

\* the rows of a frame at the lines `kept`, in file order
RECURSIVE Select(_, _)
Select(rows, kept) ==
    IF rows = <<>> THEN <<>>
    ELSE IF Len(rows) \in kept
         THEN Append(Select(SubSeq(rows, 1, Len(rows) - 1), kept), rows[Len(rows)])
         ELSE Select(SubSeq(rows, 1, Len(rows) - 1), kept)

\* mutant of drop_duplicates: keep='last'
drop_duplicates_mut(rows, key) ==
    Select(rows, {i \in 1..Len(rows) : \A j \in (i + 1)..Len(rows) : rows[j][key] # rows[i][key]})

\* df.drop_duplicates(subset=[key], keep='first')
drop_duplicates(rows, key) ==
    Select(rows, {i \in 1..Len(rows) : \A j \in 1..(i - 1) : rows[j][key] # rows[i][key]})

Range(rows) == {rows[i] : i \in 1..Len(rows)}

\* the values of a column among the rows of a table
Column(table, col) == {r[col] : r \in tables[table]}

\* the INSERT of rows into a table is refused: a primary key already stored,
\* or, with foreign keys on, a foreign key without a parent row
IntegrityError(table, key, new) ==
    \/ \E r \in new : r[key] \in Column(table, key)
    \/ /\ foreign_keys
       /\ \E r \in new : \E fk \in ForeignKeys(table) : r[fk[1]] \notin Column(fk[2], fk[3])

\* orphan count of a relationship: LEFT JOIN parent ... WHERE parent key IS NULL
Orphans(child, col, parent, key) ==
    Cardinality({r \in tables[child] : r[col] \notin Column(parent, key)})

\* mutant of missing_files: the check for missing files finds nothing
missing_files_mut == {}

\* missing_files = [f for f in csv_files.keys() if not os.path.exists(f)]
missing_files == (DOMAIN csv_files) \ present

LoadInit ==
    /\ lpc = "start"
    /\ present \in SUBSET (DOMAIN csv_files)
    /\ db_file \in BOOLEAN
    /\ conn = "none"
    /\ foreign_keys = FALSE
    \* an existing database holds the tables of an earlier run
    /\ schema = IF db_file THEN TABLES ELSE {}
    /\ tables = [t \in TABLES |-> {}]
    /\ csv_rows = <<>>
    /\ df = <<>>
    /\ duplicates_removed = 0
    /\ loaded = <<>>
    /\ indexes = {}
    /\ idx_attempted = <<>>
    /\ counts = <<>>
    /\ integrity_ok = "unset"
    /\ outcome = "none"

\* main: the check for missing CSV files
CheckFiles ==
    /\ lpc = "start"
    /\ IF missing_files # {}
       THEN /\ outcome' = "missing"
            /\ lpc' = "returned"
       ELSE /\ lpc' = "connect"
            /\ UNCHANGED outcome
    /\ UNCHANGED <<present, db_file, schema, conn, foreign_keys, tables, csv_rows, csv_rows, df, duplicates_removed,
                   loaded, indexes, idx_attempted, counts, integrity_ok,
                   gvars>>

\* main: os.remove(DB_FILE) if it exists, then sqlite3.connect(DB_FILE)
Connect ==
    /\ lpc = "connect"
    /\ db_file' = TRUE
    /\ schema' = {}
    /\ tables' = [t \in TABLES |-> {}]
    /\ indexes' = {}
    /\ conn' = "open"
    /\ lpc' = "pragma"
    /\ UNCHANGED <<present, foreign_keys, csv_rows, csv_rows, df, duplicates_removed, loaded, idx_attempted,
                   counts, integrity_ok, outcome,
                   gvars>>

\* mutant of EnableForeignKeys: the PRAGMA is not executed
EnableForeignKeysMut ==
    /\ lpc = "pragma"
    /\ lpc' = "schema"
    /\ UNCHANGED <<present, db_file, schema, conn, foreign_keys, tables, csv_rows, df,
                   duplicates_removed, loaded, indexes, idx_attempted, counts, integrity_ok,
                   outcome, gvars>>

\* main: conn.execute("PRAGMA foreign_keys = ON")
EnableForeignKeys ==
    /\ lpc = "pragma"
    /\ foreign_keys' = TRUE
    /\ lpc' = "schema"
    /\ UNCHANGED <<present, db_file, schema, conn, tables, csv_rows, csv_rows, df, duplicates_removed, loaded, indexes,
                   idx_attempted, counts, integrity_ok, outcome,
                   gvars>>

\* create_database_schema: DROP TABLE IF EXISTS, then CREATE TABLE, five times
CreateSchema ==
    /\ lpc = "schema"
    /\ schema' = TABLES
    /\ tables' = [t \in TABLES |-> {}]
    /\ lpc' = "load"
    /\ UNCHANGED <<present, db_file, conn, foreign_keys, csv_rows, csv_rows, df, duplicates_removed, loaded,
                   indexes, idx_attempted, counts, integrity_ok, outcome,
                   gvars>>

\* mutant of ExceptConn: the handler leaves the connection as it is
ExceptConnMut == conn

\* main, except Exception: if 'conn' in locals(): conn.close()
ExceptConn == IF conn = "none" THEN "none" ELSE "closed"

\* mutant of LoadErrorNext: the error of a table load is swallowed
LoadErrorNextMut == "load"

\* where main goes when load_csv_to_table raises: the `raise` of its handler
\* reaches the except clause of main
LoadErrorNext == "failed"

\* the file and the table of the load_csv_to_table call in progress or next
csv_file == load_order[Len(loaded) + 1]

table_name == csv_files[csv_file][1]

primary_key_col == csv_files[csv_file][2]

\* load_csv_to_table, up to the duplicates warning: FileNotFoundError when the
\* file is missing, else read_csv and drop_duplicates
ReadCsv ==
    /\ lpc = "load"
    /\ Len(loaded) < Len(load_order)
    /\ IF csv_file \notin present
       THEN /\ lpc' = LoadErrorNext
            /\ loaded' = IF lpc' = "failed" THEN loaded ELSE Append(loaded, table_name)
            /\ UNCHANGED <<csv_rows, df, duplicates_removed>>
       ELSE /\ \E contents \in FileContents(table_name) :
                  /\ csv_rows' = contents
                  /\ df' = drop_duplicates(contents, primary_key_col)
                  /\ duplicates_removed' = Len(contents) - Len(df')
            /\ lpc' = "insert"
            /\ UNCHANGED loaded
    /\ outcome' = IF lpc' = "failed" THEN "error" ELSE outcome
    /\ conn' = IF lpc' = "failed" THEN ExceptConn ELSE conn
    /\ UNCHANGED <<present, db_file, schema, tables, foreign_keys, indexes, idx_attempted,
                   counts, integrity_ok, gvars>>

\* load_csv_to_table: df.to_sql(table_name, conn, if_exists='append'), one
\* transaction that is rolled back when the INSERT is refused.  The locals
\* of the call stay readable until the next call; they go when the loop ends.
InsertRows ==
    /\ lpc = "insert"
    /\ IF IntegrityError(table_name, primary_key_col, Range(df))
       THEN /\ lpc' = LoadErrorNext
            /\ UNCHANGED tables
       ELSE /\ tables' = [tables EXCEPT ![table_name] = @ \cup Range(df)]
            /\ lpc' = "load"
    /\ loaded' = IF lpc' = "failed" THEN loaded ELSE Append(loaded, table_name)
    /\ outcome' = IF lpc' = "failed" THEN "error" ELSE outcome
    /\ conn' = IF lpc' = "failed" THEN ExceptConn ELSE conn
    /\ UNCHANGED <<present, db_file, schema, foreign_keys, csv_rows, csv_rows, csv_rows, df, duplicates_removed,
                   indexes, idx_attempted, counts, integrity_ok, gvars>>

\* main: the loop over load_order has ended, create_indexes is called
EndLoads ==
    /\ lpc = "load"
    /\ Len(loaded) = Len(load_order)
    /\ csv_rows' = <<>>
    /\ df' = <<>>
    /\ duplicates_removed' = 0
    /\ lpc' = "indexes"
    /\ UNCHANGED <<present, db_file, conn, schema, tables, foreign_keys, loaded, indexes,
                   idx_attempted, counts, integrity_ok, outcome, gvars>>

\* mutant of IndexErrorNext: a failed CREATE INDEX aborts the run
IndexErrorNextMut == "failed"

\* where create_indexes goes when a CREATE INDEX raises: its handler logs the
\* error and the loop goes on
IndexErrorNext == "indexes"

\* create_indexes: one iteration of `for index_name, ... in indexes`
CreateIndex ==
    /\ lpc = "indexes"
    /\ Len(idx_attempted) < Len(INDEXES)
    /\ LET index_name == INDEXES[Len(idx_attempted) + 1]
           failures == {i \in 1..Len(idx_attempted) : idx_attempted[i] \notin indexes}
       IN  /\ idx_attempted' = Append(idx_attempted, index_name)
           /\ \E raises \in {r \in BOOLEAN : r => Cardinality(failures) < MaxIndexFaults} :
                 IF raises
                 THEN /\ lpc' = IndexErrorNext
                      /\ UNCHANGED indexes
                 ELSE /\ indexes' = indexes \cup {index_name}
                      /\ UNCHANGED lpc
    /\ outcome' = IF lpc' = "failed" THEN "error" ELSE outcome
    /\ conn' = IF lpc' = "failed" THEN ExceptConn ELSE conn
    /\ UNCHANGED <<present, db_file, schema, foreign_keys, tables, csv_rows, csv_rows, df, duplicates_removed, loaded,
                   counts, integrity_ok,
                   gvars>>

\* create_indexes: conn.commit() after the loop
CommitIndexes ==
    /\ lpc = "indexes"
    /\ Len(idx_attempted) = Len(INDEXES)
    /\ lpc' = "counts"
    /\ UNCHANGED <<present, db_file, schema, conn, foreign_keys, tables, csv_rows, csv_rows, df, duplicates_removed,
                   loaded, indexes, idx_attempted, counts, integrity_ok, outcome,
                   gvars>>

\* print_table_counts: SELECT COUNT(*) of each table
PrintTableCounts ==
    /\ lpc = "counts"
    /\ counts' = [t \in TABLES |-> Cardinality(tables[t])]
    /\ lpc' = "verify"
    /\ UNCHANGED <<present, db_file, schema, conn, foreign_keys, tables, csv_rows, csv_rows, df, duplicates_removed,
                   loaded, indexes, idx_attempted, integrity_ok, outcome,
                   gvars>>

\* mutant of all_passed: the Shipments -> Orders check is left out
all_passed_mut ==
    /\ Orphans("orders", "customer_id", "customers", "customer_id") = 0
    /\ Orphans("order_items", "order_id", "orders", "order_id") = 0
    /\ Orphans("order_items", "product_id", "products", "product_id") = 0

\* verify_referential_integrity: all_passed
all_passed ==
    /\ Orphans("orders", "customer_id", "customers", "customer_id") = 0
    /\ Orphans("order_items", "order_id", "orders", "order_id") = 0
    /\ Orphans("order_items", "product_id", "products", "product_id") = 0
    /\ Orphans("shipments", "order_id", "orders", "order_id") = 0

\* main: integrity_ok = verify_referential_integrity(conn)
VerifyReferentialIntegrity ==
    /\ lpc = "verify"
    /\ integrity_ok' = IF all_passed THEN "True" ELSE "False"
    /\ lpc' = "summary"
    /\ UNCHANGED <<present, db_file, schema, conn, foreign_keys, tables, csv_rows, csv_rows, df, duplicates_removed,
                   loaded, indexes, idx_attempted, counts, outcome,
                   gvars>>

\* main: the final outcome line, then conn.close()
Summary ==
    /\ lpc = "summary"
    /\ outcome' = IF integrity_ok = "True" THEN "success" ELSE "warnings"
    /\ conn' = "closed"
    /\ lpc' = "done"
    /\ UNCHANGED <<present, db_file, schema, foreign_keys, tables, csv_rows, csv_rows, df, duplicates_removed, loaded,
                   indexes, idx_attempted, counts, integrity_ok,
                   gvars>>

LoadNext ==
    \/ CheckFiles
    \/ Connect
    \/ EnableForeignKeys
    \/ CreateSchema
    \/ ReadCsv
    \/ InsertRows
    \/ EndLoads
    \/ CreateIndex
    \/ CommitIndexes
    \/ PrintTableCounts
    \/ VerifyReferentialIntegrity
    \/ Summary

\* create_database_schema: the order of the CREATE TABLE statements
create_order == <<"customers", "products", "orders", "order_items", "shipments">>

\* main: os.remove or sqlite3.connect raises; conn is not bound yet
ConnectRaises ==
    /\ lpc = "connect"
    /\ \E removed \in {r \in BOOLEAN : r => db_file} :
          /\ db_file' = (db_file /\ ~removed)
          /\ schema' = IF removed THEN {} ELSE schema
    /\ conn' = ExceptConn
    /\ outcome' = "error"
    /\ lpc' = "failed"
    /\ UNCHANGED <<present, foreign_keys, tables, csv_rows, df, duplicates_removed, loaded,
                   indexes, idx_attempted, counts, integrity_ok, gvars>>

\* main: the PRAGMA statement raises
PragmaRaises ==
    /\ lpc = "pragma"
    /\ conn' = ExceptConn
    /\ outcome' = "error"
    /\ lpc' = "failed"
    /\ UNCHANGED <<present, db_file, schema, foreign_keys, tables, csv_rows, df,
                   duplicates_removed, loaded, indexes, idx_attempted, counts, integrity_ok,
                   gvars>>

\* create_database_schema: a statement raises after some tables were created
SchemaRaises ==
    /\ lpc = "schema"
    /\ \E k \in 0..(Len(create_order) - 1) :
          schema' = {create_order[i] : i \in 1..k}
    /\ conn' = ExceptConn
    /\ outcome' = "error"
    /\ lpc' = "failed"
    /\ UNCHANGED <<present, db_file, foreign_keys, tables, csv_rows, df, duplicates_removed,
                   loaded, indexes, idx_attempted, counts, integrity_ok, gvars>>

\* create_indexes: conn.cursor() or conn.commit() raises, outside the
\* try block of the loop
IndexesRaise ==
    /\ lpc = "indexes"
    /\ idx_attempted = <<>> \/ Len(idx_attempted) = Len(INDEXES)
    /\ conn' = ExceptConn
    /\ outcome' = "error"
    /\ lpc' = "failed"
    /\ UNCHANGED <<present, db_file, schema, foreign_keys, tables, csv_rows, df,
                   duplicates_removed, loaded, indexes, idx_attempted, counts, integrity_ok,
                   gvars>>

\* verify_referential_integrity: a query raises
VerifyRaises ==
    /\ lpc = "verify"
    /\ conn' = ExceptConn
    /\ outcome' = "error"
    /\ lpc' = "failed"
    /\ UNCHANGED <<present, db_file, schema, foreign_keys, tables, csv_rows, df,
                   duplicates_removed, loaded, indexes, idx_attempted, counts, integrity_ok,
                   gvars>>

\* the loader when any statement of main's try block may raise
FaultNext ==
    \/ LoadNext
    \/ ConnectRaises
    \/ PragmaRaises
    \/ SchemaRaises
    \/ IndexesRaise
    \/ VerifyRaises

----------------------------------------------------------------------------
(* The two programs.  Spec runs the generator, LoadSpec runs the loader on  *)
(* any CSV files within the bounds.                                        *)

vars == <<gvars, lvars>>

\* the loader has not been started
LoadIdle ==
    /\ lpc = "idle"
    /\ present = {}
    /\ db_file = FALSE
    /\ conn = "none"
    /\ foreign_keys = FALSE
    /\ schema = {}
    /\ tables = [t \in TABLES |-> {}]
    /\ csv_rows = <<>>
    /\ df = <<>>
    /\ duplicates_removed = 0
    /\ loaded = <<>>
    /\ indexes = {}
    /\ idx_attempted = <<>>
    /\ counts = <<>>
    /\ integrity_ok = "unset"
    /\ outcome = "none"

\* the generator is not running
GenIdle ==
    /\ pc = "idle"
    /\ customers = <<>>
    /\ products = <<>>
    /\ orders = <<>>
    /\ order_items = <<>>
    /\ shipments = <<>>
    /\ files = {}
    /\ passed = {}
    /\ reported = FALSE

Init == GenInit /\ LoadIdle

Next == GenNext

Spec == Init /\ [][Next]_vars

LoadSpecInit == LoadInit /\ GenIdle

LoadSpec == LoadSpecInit /\ [][LoadNext]_vars

\* the loader with the failures of the store and the file system
FaultSpec == LoadSpecInit /\ [][FaultNext]_vars

\* the rows a table may hold: any rows with distinct primary keys
TableContents(table) ==
    {rows \in SUBSET RowValues(table) :
        \A r1, r2 \in rows :
            r1[csv_files[table \o ".csv"][2]] = r2[csv_files[table \o ".csv"][2]] => r1 = r2}

\* main reaches verify_referential_integrity(conn) with a connection to a
\* database of any contents: its rows need not have been written under
\* foreign-key enforcement
VerifyInit ==
    /\ lpc = "verify"
    /\ present = DOMAIN csv_files
    /\ db_file = TRUE
    /\ conn = "open"
    /\ foreign_keys = FALSE
    /\ schema = TABLES
    /\ \E c \in TableContents("customers"), p \in TableContents("products"),
          o \in TableContents("orders"), i \in TableContents("order_items"),
          h \in TableContents("shipments") :
          tables = [t \in TABLES |->
                       CASE t = "customers" -> c
                         [] t = "products" -> p
                         [] t = "orders" -> o
                         [] t = "order_items" -> i
                         [] t = "shipments" -> h]
    /\ csv_rows = <<>>
    /\ df = <<>>
    /\ duplicates_removed = 0
    /\ loaded = <<"customers", "products", "orders", "order_items", "shipments">>
    /\ indexes = {INDEXES[i] : i \in 1..Len(INDEXES)}
    /\ idx_attempted = INDEXES
    /\ counts = [t \in TABLES |-> Cardinality(tables[t])]
    /\ integrity_ok = "unset"
    /\ outcome = "none"
    /\ GenIdle

VerifyNext ==
    \/ VerifyReferentialIntegrity
    \/ Summary

VerifySpec == VerifyInit /\ [][VerifyNext]_vars

----------------------------------------------------------------------------
(* Properties of the generator                                             *)

AllChecks == {"verify_customers", "verify_products", "verify_item_orders",
              "verify_shipments"}

OrderOf(shipment) == FirstRow(orders, "order_id", shipment.order_id)

CustomerOf(order) == FirstRow(customers, "customer_id", order.customer_id)

\* the date a shipment may not precede: the order's ship_date when set,
\* otherwise its order_date
EarliestShipment(order) ==
    IF order.ship_date # <<>> THEN to_datetime(order.ship_date)
    ELSE to_datetime(order.order_date)

\* C1: every shipment references an order that is Shipped or Delivered, and
\* its shipment_date is on or after the order's ship_date when that is set,
\* otherwise on or after its order_date.
C1_ShipmentNotBeforeShipDate ==
    \A i \in 1..Len(shipments) :
        /\ OrderOf(shipments[i]).status \in {"Shipped", "Delivered"}
        /\ to_datetime(shipments[i].shipment_date) >= EarliestShipment(OrderOf(shipments[i]))

\* C2: no interchange file is written until the four referential self-checks
\* have passed.
C2_NoFileBeforeSelfCheck == files # {} => passed = AllChecks

\* C3: every order's order_date is on or after the signup_date of the
\* customer it references.
C3_OrderAfterSignup ==
    \A i \in 1..Len(orders) :
        to_datetime(orders[i].order_date) >= to_datetime(CustomerOf(orders[i]).signup_date)

\* an order was generated for a customer who signed up on the signup cutoff
C3_Witness ==
    \E i \in 1..Len(orders) :
        /\ to_datetime(CustomerOf(orders[i]).signup_date) = SIGNUP_END
        /\ to_datetime(CustomerOf(orders[i]).signup_date) > START_DATE

\* C4: an order's ship_date is absent exactly when its status is Pending or
\* Cancelled; otherwise it is set and lies 1 to 7 days after order_date.
C4_ShipDateByStatus ==
    \A i \in 1..Len(orders) :
        /\ orders[i].ship_date = <<>> <=> orders[i].status \in {"Pending", "Cancelled"}
        /\ orders[i].ship_date # <<>> =>
              LET days == to_datetime(orders[i].ship_date) - to_datetime(orders[i].order_date)
              IN  1 <= days /\ days <= 7

\* the generator has produced a Cancelled order, and the run went on past it
C4_Witness ==
    /\ pc = "order_items"
    /\ \E i \in 1..Len(orders) : orders[i].status = "Cancelled"

\* every foreign key of the generated collections is the id of a generated parent
RefClosure ==
    /\ Ids(orders, "customer_id") \subseteq Ids(customers, "customer_id")
    /\ Ids(order_items, "order_id") \subseteq Ids(orders, "order_id")
    /\ Ids(order_items, "product_id") \subseteq Ids(products, "product_id")
    /\ Ids(shipments, "order_id") \subseteq Ids(orders, "order_id")

\* C5: the generated collections are referentially closed; success is
\* reported only after all four checks have passed, and a failed check stops
\* the run without a success report.
C5_ReferentialClosure ==
    /\ RefClosure
    /\ reported => passed = AllChecks
    /\ pc = "done" => reported
    /\ pc = "assert_failed" => ~reported /\ passed # AllChecks

\* a run that generated all five collections and reported success
C5_Witness ==
    /\ pc = "done"
    /\ reported
    /\ Len(order_items) = NUM_ORDER_ITEMS
    /\ Len(shipments) = NUM_SHIPMENTS

----------------------------------------------------------------------------
(* Properties of the loader                                                *)

DependencyOrder == <<"customers", "products", "orders", "order_items", "shipments">>

Parents(table) == {fk[2] : fk \in ForeignKeys(table)}

\* C6: the tables are loaded strictly in the order customers, products,
\* orders, order_items, shipments: the insert into a table starts, and a
\* table holds rows, only when every table it references is completely loaded.
C6_LoadInDependencyOrder ==
    /\ Len(loaded) <= Len(DependencyOrder)
    /\ loaded = SubSeq(DependencyOrder, 1, Len(loaded))
    /\ lpc = "insert" => Parents(table_name) \subseteq Range(loaded)
    /\ \A t \in TABLES : tables[t] # {} => Parents(t) \subseteq Range(loaded)

\* the insert into order_items is about to start, orders and products loaded
C6_Witness ==
    /\ lpc = "insert"
    /\ table_name = "order_items"
    /\ df # <<>>
    /\ tables["orders"] # {}
    /\ tables["products"] # {}

KeysOf(rows, key) == {rows[i][key] : i \in 1..Len(rows)}

FirstOccurrence(rows, key, k) ==
    rows[CHOOSE i \in 1..Len(rows) :
            /\ rows[i][key] = k
            /\ \A j \in 1..(i - 1) : rows[j][key] # k]

\* C7: a successful load stores, for every primary key of the file, exactly
\* one row, the key's first occurrence in file order; the duplicates count
\* reported is the number of rows of the file minus the number of distinct
\* keys, non-zero whenever a key occurs twice.
C7_KeepFirstOccurrence ==
    [][(lpc = "insert" /\ lpc' = "load") =>
          /\ \A k \in KeysOf(csv_rows, primary_key_col) :
                {r \in tables'[table_name] : r[primary_key_col] = k}
                    = {FirstOccurrence(csv_rows, primary_key_col, k)}
          /\ Cardinality(tables'[table_name])
                = Cardinality(KeysOf(csv_rows, primary_key_col))
          /\ duplicates_removed
                = Len(csv_rows) - Cardinality(KeysOf(csv_rows, primary_key_col))
          /\ Len(csv_rows) > Cardinality(KeysOf(csv_rows, primary_key_col))
                => duplicates_removed > 0]_vars

\* orders.csv held order 1 twice, with different customers; it was loaded,
\* one duplicate was reported and the first of the two rows is stored
C7_Witness ==
    /\ lpc = "load"
    /\ loaded = <<"customers", "products", "orders">>
    /\ Len(csv_rows) = 2
    /\ csv_rows[1].order_id = csv_rows[2].order_id
    /\ csv_rows[1].customer_id # csv_rows[2].customer_id
    /\ duplicates_removed = 1
    /\ tables["orders"] = {csv_rows[1]}

\* C8: when a source file is missing at the start of the run, the run writes
\* nothing: the database file is neither removed nor created, no connection
\* is opened, no table is dropped or created and no row is inserted.
C8_MissingFileAbortsBeforeWrites ==
    (DOMAIN csv_files) \ present # {} =>
        /\ lpc \in {"start", "returned"}
        /\ conn = "none"
        /\ schema = (IF db_file THEN TABLES ELSE {})
        /\ \A t \in TABLES : tables[t] = {}
        /\ loaded = <<>>
        /\ indexes = {}
        /\ ~foreign_keys

\* the run returned on a missing file and the existing database is still there
C8_Witness ==
    /\ lpc = "returned"
    /\ outcome = "missing"
    /\ "orders.csv" \notin present
    /\ db_file
    /\ schema = TABLES

\* the state the run ends in after a failed table load
C9_Aborted ==
    lpc = "failed" =>
        /\ outcome = "error"
        /\ Len(loaded) < Len(DependencyOrder)
        /\ \A t \in TABLES \ Range(loaded) : tables[t] = {}
        /\ idx_attempted = <<>>
        /\ indexes = {}
        /\ counts = <<>>
        /\ integrity_ok = "unset"

\* C9: when the load of a table fails the run goes to its hard-failure end
\* and stays there: no later table is loaded, no index is created, no
\* row-count report and no integrity verification is run, and the status is
\* the hard failure, not success or completed-with-warnings.
C9_LoadFailureAborts ==
    /\ [][/\ (lpc = "insert" /\ IntegrityError(table_name, primary_key_col, Range(df)))
                => (lpc' = "failed" /\ outcome' = "error" /\ tables' = tables)
          /\ (lpc = "load" /\ Len(loaded) < Len(load_order) /\ csv_file \notin present)
                => (lpc' = "failed" /\ outcome' = "error")
          /\ lpc = "failed" => lpc' = "failed"]_vars
    /\ []C9_Aborted

\* the load of orders failed on a customer_id that no customer row holds
C9_Witness ==
    /\ lpc = "failed"
    /\ loaded = <<"customers", "products">>
    /\ \E i \in 1..Len(df) : df[i].customer_id \notin Column("customers", "customer_id")
    /\ tables["orders"] = {}

IndexFailures == {i \in 1..Len(idx_attempted) : idx_attempted[i] \notin indexes}

\* C10: a failed index creation does not abort the run: the remaining
\* indexes are attempted, and the row-count report and the integrity
\* verification run afterwards.
C10_IndexFailureNotFatal ==
    /\ IndexFailures # {} => lpc \in {"indexes", "counts", "verify", "summary", "done"}
    /\ lpc = "indexes" => ENABLED (CreateIndex \/ CommitIndexes)
    /\ lpc \in {"counts", "verify", "summary", "done"} => idx_attempted = INDEXES
    /\ lpc = "counts" => ENABLED PrintTableCounts
    /\ lpc = "verify" => ENABLED VerifyReferentialIntegrity
    /\ lpc \in {"summary", "done"} => counts # <<>> /\ integrity_ok # "unset"

\* the first index could not be created; the later ones were, and the run
\* went on to the report and the verification
C10_Witness ==
    /\ lpc = "done"
    /\ INDEXES[1] \notin indexes
    /\ INDEXES[Len(INDEXES)] \in indexes
    /\ Len(idx_attempted) = Len(INDEXES)
    /\ counts # <<>>
    /\ integrity_ok = "True"

\* the orphan rows of a relationship: the child rows whose foreign key value
\* is the key of no parent row
OrphanRows(child, col, parent, key) ==
    {r \in tables[child] : ~ \E q \in tables[parent] : q[key] = r[col]}

NoOrphans ==
    /\ OrphanRows("orders", "customer_id", "customers", "customer_id") = {}
    /\ OrphanRows("order_items", "order_id", "orders", "order_id") = {}
    /\ OrphanRows("order_items", "product_id", "products", "product_id") = {}
    /\ OrphanRows("shipments", "order_id", "orders", "order_id") = {}

\* C11: verify_referential_integrity returns true exactly when none of the
\* four relationships has an orphan row; a false result does not abort the
\* run, which ends "completed with warnings" instead of "completed
\* successfully".
C11_VerifyResult ==
    /\ integrity_ok # "unset" => (integrity_ok = "True" <=> NoOrphans)
    /\ lpc = "summary" => integrity_ok # "unset" /\ ENABLED Summary
    /\ lpc = "done" =>
          /\ outcome = (IF NoOrphans THEN "success" ELSE "warnings")
          /\ conn = "closed"
    /\ lpc \in {"verify", "summary", "done"}

\* a shipment row references an order that does not exist, the other three
\* relationships are clean, and the run ended with the warnings status
C11_Witness ==
    /\ lpc = "done"
    /\ outcome = "warnings"
    /\ integrity_ok = "False"
    /\ OrphanRows("shipments", "order_id", "orders", "order_id") # {}
    /\ OrphanRows("orders", "customer_id", "customers", "customer_id") = {}
    /\ OrphanRows("order_items", "order_id", "orders", "order_id") = {}
    /\ OrphanRows("order_items", "product_id", "products", "product_id") = {}

\* the rows of df whose foreign key is the key of no row of the parent table
OrphanInserts ==
    {r \in Range(df) : \E fk \in ForeignKeys(table_name) :
        ~ \E q \in tables[fk[2]] : q[fk[3]] = r[fk[1]]}

\* foreign keys are on once the PRAGMA step is passed, and no table holds an
\* orphan row
C12_Enforced ==
    /\ lpc \in {"schema", "load", "insert", "indexes", "counts", "verify", "summary",
                "done", "failed"} => foreign_keys
    /\ (\E t \in TABLES : tables[t] # {}) => foreign_keys
    /\ conn = "open" /\ schema # {} => foreign_keys
    /\ NoOrphans
    /\ lpc = "done" => integrity_ok = "True" /\ outcome = "success"

\* C12: foreign-key enforcement is on before the schema is created and
\* before any row is inserted; an insert of a child row without a parent row
\* is rejected and leaves the tables unchanged; no table ever holds an
\* orphan row, so a completed run ends with none.
C12_ForeignKeysEnforced ==
    /\ []C12_Enforced
    /\ [][(lpc = "insert" /\ OrphanInserts # {}) =>
             (tables' = tables /\ lpc' = "failed" /\ outcome' = "error")]_vars

\* shipments.csv held a row for an order that is not stored: the insert was
\* rejected and the shipments table is empty
C12_Witness ==
    /\ lpc = "failed"
    /\ foreign_keys
    /\ loaded = <<"customers", "products", "orders", "order_items">>
    /\ \E i \in 1..Len(df) : df[i].order_id \notin Column("orders", "order_id")
    /\ tables["shipments"] = {}
    /\ tables["order_items"] # {}

\* C13: once the connection is opened it is closed on every path out of the
\* run: after a completed run and after a failure in schema creation, in a
\* table load, in index creation or in verification.  The connection is
\* unopened at the end only when the run ended before or in the connect step.
C13_ConnectionClosed ==
    /\ lpc \in {"done", "failed", "returned"} => conn # "open"
    /\ lpc = "done" => conn = "closed"
    /\ (lpc \in {"failed", "returned"} /\ conn = "none") =>
          (~ foreign_keys /\ loaded = <<>> /\ tables = [t \in TABLES |-> {}])
    /\ (foreign_keys \/ lpc \in {"pragma", "schema"}) => conn # "none"

\* the verification raised after the tables were loaded and counted, and the
\* connection is closed
C13_Witness ==
    /\ lpc = "failed"
    /\ conn = "closed"
    /\ counts # <<>>
    /\ integrity_ok = "unset"
    /\ Len(loaded) = Len(load_order)

\* C15: every shipment_date is on or before END_DATE, also for an order whose
\* ship_date is after END_DATE; the earliest date of the draw is never after
\* END_DATE, and the interval from it to max(earliest, END_DATE) is not empty.
C15_ShipmentWithinHorizon ==
    /\ \A i \in 1..Len(shipments) : to_datetime(shipments[i].shipment_date) <= END_DATE
    /\ \A j \in 1..Len(orders) :
          orders[j].order_id \in order_ids_with_shipments =>
              /\ MinShipDate(orders[j]) <= END_DATE
              /\ MinShipDate(orders[j]) <= Max(MinShipDate(orders[j]), END_DATE)
              /\ date_between(MinShipDate(orders[j]),
                              Max(MinShipDate(orders[j]), END_DATE)) # {}

\* a shipment of an order whose ship_date is after END_DATE, dated within
\* the horizon
C15_Witness ==
    \E i \in 1..Len(shipments) :
        /\ OrderOf(shipments[i]).ship_date # <<>>
        /\ to_datetime(OrderOf(shipments[i]).ship_date) > END_DATE
        /\ to_datetime(shipments[i].shipment_date) <= END_DATE

\* the product of an order item, the order of an order item
ProductOfItem(item) == FirstRow(products, "product_id", item.product_id)

OrderOfItem(item) == FirstRow(orders, "order_id", item.order_id)

\* C16: every product's launch_date is between START_DATE and the launch
\* cutoff, and the launch date of a product is not after the date of an
\* order that holds it.
C16_LaunchBeforeOrders ==
    /\ \A i \in 1..Len(products) :
          /\ START_DATE <= to_datetime(products[i].launch_date)
          /\ to_datetime(products[i].launch_date) <= LAUNCH_END
    /\ \A i \in 1..Len(order_items) :
          to_datetime(ProductOfItem(order_items[i]).launch_date)
              <= to_datetime(OrderOfItem(order_items[i]).order_date)

====
